---------------------------- MODULE Spec2Model ----------------------------
(***************************************************************************)
(* torchgeo: the AgriFieldNet dataset (construction, spatiotemporal query, *)
(* plotting) and the sampler utilities tile_to_chips and                   *)
(* get_random_bounding_box.                                                *)
(*                                                                         *)
(* Numbers are integers: coordinates, sizes, strides and resolutions are   *)
(* drawn from small integer ranges, and a quotient a / b is kept exact as  *)
(* the pair (a, b) until math.ceil or int() is applied to it.              *)
(***************************************************************************)
EXTENDS Integers, Sequences, FiniteSets, TLC

VARIABLES
    \* ---- the file system and the download collaborator
    fs,            \* band codes for which matching files exist under paths
    downloads,     \* number of azcopy invocations
    \* ---- the AgriFieldNet object and the arguments it was built from
    pc,            \* where the object or the call is: "new", "ready", "failed",
                   \* "returned", "raised", "plotted", "idle"
    paths,         \* "str" (one path) | "list" (an iterable of paths)
    download,      \* self.download
    classes,       \* the classes argument
    bands,         \* self.bands
    filename_glob, \* the band code formatted into filename_glob, or "{}"
    ordinal_map,   \* self.ordinal_map
    ordinal_cmap,  \* self.ordinal_cmap
    index,         \* self.index: a sequence of records
    err,           \* the exception the last operation raised, or "none"
    \* ---- __getitem__
    query,         \* the query handed to __getitem__
    selected,      \* the local variable index after line 193
    sample,        \* the returned sample, or NoSample
    \* ---- plot
    rgb_indices,   \* the local variable rgb_indices of plot
    \* ---- sampler utilities
    args,          \* the arguments of the sampler call
    chips,         \* the result of tile_to_chips, or NoChips
    genA, genB,    \* the supplied generators of two runs
    defA, defB,    \* the process-default generators of the two runs
    boxesA, boxesB \* the boxes get_random_bounding_box returned, per run

vars == << fs, downloads, pc, paths, download, classes, bands, filename_glob,
           ordinal_map, ordinal_cmap, index, err, query, selected, sample,
           rgb_indices, args, chips, genA, genB, defA, defB, boxesA, boxesB >>

datasetVars == << fs, downloads, paths, download, classes, bands,
                  filename_glob, ordinal_map, ordinal_cmap, index >>
queryVars == << query, selected, sample >>
samplerVars == << args, chips, genA, genB, defA, defB, boxesA, boxesB >>

NoValue == "none"
NoSample == [kind |-> "none"]
NoChips == << >>

(***************************************************************************)
(* Class attributes of AgriFieldNet.                                       *)
(***************************************************************************)
rgb_bands == << "B04", "B03", "B02" >>

all_bands == << "B01", "B02", "B03", "B04", "B05", "B06", "B07", "B08",
                "B8A", "B09", "B11", "B12" >>

CmapKeys == {0, 1, 2, 3, 4, 5, 6, 8, 9, 13, 14, 15, 16, 36}

cmap ==
    [k \in CmapKeys |->
        CASE k = 0  -> << 0, 0, 0, 255 >>
          [] k = 1  -> << 255, 211, 0, 255 >>
          [] k = 2  -> << 255, 37, 37, 255 >>
          [] k = 3  -> << 0, 168, 226, 255 >>
          [] k = 4  -> << 255, 158, 9, 255 >>
          [] k = 5  -> << 37, 111, 0, 255 >>
          [] k = 6  -> << 255, 255, 0, 255 >>
          [] k = 8  -> << 111, 166, 0, 255 >>
          [] k = 9  -> << 0, 175, 73, 255 >>
          [] k = 13 -> << 222, 166, 9, 255 >>
          [] k = 14 -> << 222, 166, 9, 255 >>
          [] k = 15 -> << 124, 211, 255, 255 >>
          [] k = 16 -> << 226, 0, 124, 255 >>
          [] k = 36 -> << 137, 96, 83, 255 >>]

\* max(self.cmap.keys())
MaxKey == CHOOSE m \in CmapKeys : \A k \in CmapKeys : k <= m

(***************************************************************************)
(* Bounds of the model.                                                    *)
(***************************************************************************)
MaxClasses == 3     \* longest classes argument
MaxBands == 3       \* longest bands argument drawn for plot
MaxT == 1          \* largest time coordinate of a record
MaxX == 2          \* largest x coordinate of a record
MaxOutside == 1    \* how far past the records a query may reach
NRec == 3          \* most records in an index
MaxStep == 2       \* largest time step of a query
MaxCoord == 3      \* largest coordinate of a tile's bounds
MaxSize == 2       \* largest chip size
MaxStride == 2     \* largest stride
MaxRes == 2        \* largest resolution
RandDen == 3       \* torch.rand draws one of 0/RandDen .. (RandDen-1)/RandDen
MaxCalls == 2      \* most calls of get_random_bounding_box in a run

Range(s) == {s[i] : i \in 1..Len(s)}

SeqsUpTo(S, n) == UNION {[1..m -> S] : m \in 0..n}

\* Raw ids a classes argument is drawn from: background, two crops, the
\* largest key, and 7, which is no key of cmap.
ClassIds == {0, 1, 36, 7}
ClassLists == SeqsUpTo(ClassIds, MaxClasses)

\* Band codes a bands argument is drawn from.
BandCodes == {"B01", "B02", "B03", "B04"}
BandLists == SeqsUpTo(BandCodes, MaxBands)

(***************************************************************************)
(* Index records.  A record is one discovered file: its path, its bounding *)
(* box and its time interval.  A file name that matches filename_regex is  *)
(* << "ref", unique_folder_id, band >>; any other name is << "file", n >>. *)
(***************************************************************************)
Rec(dir, name, xmin, xmax, ymin, ymax, mint, maxt) ==
    [filepath |-> [dir |-> dir, name |-> name],
     xmin |-> xmin, xmax |-> xmax, ymin |-> ymin, ymax |-> ymax,
     mint |-> mint, maxt |-> maxt]

\* The tiles of the test data: one file per band and tile.
TilesOf(band) ==
    << Rec("source", << "ref", "001c1", band >>, 0, 1, 0, 1, 0, 1),
       Rec("source", << "ref", "00720", band >>, 1, 2, 0, 1, 0, 1) >>

\* self.files: the files under paths that match self.filename_glob.
Files(fsys, glob) == IF glob \in fsys THEN TilesOf(glob) ELSE << >>

(***************************************************************************)
(* AgriFieldNet.__init__                                                   *)
(***************************************************************************)
\* Mutant: the assertion `0 in classes` is missing.
ClassesValidNoBackground(cls) == Range(cls) \subseteq CmapKeys

\* The two assertions on the classes argument.
ClassesValid(cls) == Range(cls) \subseteq CmapKeys /\ 0 \in Range(cls)

RECURSIVE OrdinalMapOneBased(_, _)
\* Mutant: enumerate(classes, 1).
OrdinalMapOneBased(cls, n) ==
    IF n = 0
    THEN [k \in 0..MaxKey |-> 0]
    ELSE [OrdinalMapOneBased(cls, n - 1) EXCEPT ![cls[n]] = n]

RECURSIVE OrdinalMapAfter(_, _)
\* ordinal_map after the first n turns of `for v, k in enumerate(classes)`.
OrdinalMapAfter(cls, n) ==
    IF n = 0
    THEN [k \in 0..MaxKey |-> 0]
    ELSE [OrdinalMapAfter(cls, n - 1) EXCEPT ![cls[n]] = n - 1]

\* ordinal_cmap after the loop: row v is cmap[classes[v]].
OrdinalCmap(cls) == [v \in 1..Len(cls) |-> cmap[cls[v]]]

\* Mutant: the download flag is not consulted, _verify always downloads.
VerifyAlwaysDownload(files, dl) ==
    IF files # << >> THEN "return" ELSE "download"

\* _verify: "return" | "raise" | "download"
Verify(files, dl) ==
    IF files # << >> THEN "return"
    ELSE IF ~dl THEN "raise"
    ELSE "download"

Failed(e) ==
    /\ pc' = "failed"
    /\ err' = e

Construct(p, cls, bnds, dl) ==
    /\ pc = "new"
    /\ classes' = cls
    /\ IF ~ClassesValid(cls)
       THEN /\ Failed("AssertionError")
            /\ UNCHANGED << fs, downloads, paths, download, bands,
                            filename_glob, ordinal_map, ordinal_cmap, index >>
       ELSE /\ paths' = p
            /\ download' = dl
            /\ IF bnds = << >>
               THEN \* bands[0] of an empty sequence
                    /\ Failed("IndexError")
                    /\ UNCHANGED << fs, downloads, bands, filename_glob,
                                    ordinal_map, ordinal_cmap, index >>
               ELSE /\ filename_glob' = bnds[1]
                    /\ LET v == Verify(Files(fs, bnds[1]), dl) IN
                       CASE v = "raise" ->
                              /\ Failed("DatasetNotFoundError")
                              /\ UNCHANGED << fs, downloads, bands,
                                              ordinal_map, ordinal_cmap, index >>
                         [] v = "download" /\ p # "str" ->
                              \* the assertion of _download
                              /\ Failed("AssertionError")
                              /\ UNCHANGED << fs, downloads, bands,
                                              ordinal_map, ordinal_cmap, index >>
                         [] OTHER ->
                              /\ fs' = IF v = "download"
                                       THEN fs \cup Range(all_bands) ELSE fs
                              /\ downloads' = IF v = "download"
                                              THEN downloads + 1 ELSE downloads
                              /\ bands' = bnds
                              /\ index' = Files(fs', bnds[1])
                              /\ ordinal_map' = OrdinalMapAfter(cls, Len(cls))
                              /\ ordinal_cmap' = OrdinalCmap(cls)
                              /\ pc' = "ready"
                              /\ err' = "none"
    /\ UNCHANGED << queryVars, rgb_indices, samplerVars >>


(***************************************************************************)
(* AgriFieldNet.plot                                                       *)
(***************************************************************************)
\* self.bands.index(band): the zero-based position of the first occurrence.
BandIndex(bnds, band) ==
    (CHOOSE i \in 1..Len(bnds) :
        bnds[i] = band /\ \A j \in 1..(i - 1) : bnds[j] # band) - 1

\* Mutant: only the first RGB band is looked for.
RgbLoopStopFirstOnly(bnds) ==
    IF rgb_bands[1] \in Range(bnds) THEN Len(rgb_bands) + 1 ELSE 1

\* The turn of `for band in self.rgb_bands` that raises: the first j with
\* rgb_bands[j] not in self.bands, or len(rgb_bands) + 1 when none does.
RgbLoopStop(bnds) ==
    IF \E j \in 1..Len(rgb_bands) : rgb_bands[j] \notin Range(bnds)
    THEN CHOOSE j \in 1..Len(rgb_bands) :
            /\ rgb_bands[j] \notin Range(bnds)
            /\ \A i \in 1..(j - 1) : rgb_bands[i] \in Range(bnds)
    ELSE Len(rgb_bands) + 1

Plot ==
    /\ pc = "ready"
    /\ sample # NoSample
    /\ LET stop == RgbLoopStop(bands)
           found == [j \in 1..(stop - 1) |->
                        IF rgb_bands[j] \in Range(bands)
                        THEN BandIndex(bands, rgb_bands[j]) ELSE -1]
       IN  \* rgb_indices as the loop leaves it; rendering changes no state
           /\ rgb_indices' = found
           /\ IF stop <= Len(rgb_bands)
              THEN /\ pc' = "raised"
                   /\ err' = "RGBBandsMissingError"
              ELSE /\ pc' = "plotted"
                   /\ err' = "none"
    /\ UNCHANGED << datasetVars, queryVars, samplerVars >>

(***************************************************************************)
(* AgriFieldNet.__getitem__                                                *)
(***************************************************************************)
\* How the intervals of self.index are closed (pd.IntervalIndex), and how
\* pd.Interval(t.start, t.stop) is: pandas closes an Interval on the right
\* unless told otherwise.
IndexClosed == "left"
QueryClosed == "right"

ClosedLeft(c) == c \in {"left", "both"}
ClosedRight(c) == c \in {"right", "both"}

\* Mutant: endpoints that only touch never count, whatever side is closed.
OverlapsOpen(r, t) == r.mint < t.stop /\ t.start < r.maxt

\* self.index.index.overlaps(interval): equality of endpoints counts only
\* where both touching ends are closed.
Overlaps(r, t) ==
    /\ IF ClosedLeft(IndexClosed) /\ ClosedRight(QueryClosed)
       THEN r.mint <= t.stop ELSE r.mint < t.stop
    /\ IF ClosedLeft(QueryClosed) /\ ClosedRight(IndexClosed)
       THEN t.start <= r.maxt ELSE t.start < r.maxt

\* index.cx[x.start : x.stop, y.start : y.stop]: the record's box
\* intersects the (closed) query rectangle.
Intersects(r, x, y) ==
    /\ r.xmin <= x.stop /\ x.start <= r.xmax
    /\ r.ymin <= y.stop /\ y.start <= r.ymax

\* seq[::step]
EveryNth(seq, step) ==
    [i \in 1..((Len(seq) + step - 1) \div step) |-> seq[(i - 1) * step + 1]]

TimeFilter(idx, t) == SelectSeq(idx, LAMBDA r : Overlaps(r, t))
SpatialFilter(idx, x, y) == SelectSeq(idx, LAMBDA r : Intersects(r, x, y))

\* Mutant: the stride is taken after the spatial filter.
FilterIndexStrideLast(idx, q) ==
    EveryNth(SpatialFilter(TimeFilter(idx, q.t), q.x, q.y), q.t.step)

\* Lines 190-193: the records of the index the query selects.
FilterIndex(idx, q) ==
    SpatialFilter(EveryNth(TimeFilter(idx, q.t), q.t.step), q.x, q.y)

\* Mutant: the error is raised for a non-empty subset.
IsEmptyInverted(idx) == idx # << >>

\* index.empty
IsEmpty(idx) == idx = << >>

\* Mutant: every band reads the file the index recorded.
SubstituteBandKeep(filepath, band) == filepath

\* Lines 205-213: the band code of a file name that matches filename_regex
\* is replaced; the directory and any other file name are kept.
SubstituteBand(filepath, band) ==
    IF filepath.name[1] = "ref"
    THEN [filepath EXCEPT !.name = << "ref", filepath.name[2], band >>]
    ELSE filepath

\* Lines 202-216: one merged tensor per band, in the order of self.bands;
\* a tensor is known by the files and the query _merge_files was handed.
DataList(idx, bnds, q) ==
    [b \in 1..Len(bnds) |->
        [band |-> bnds[b],
         files |-> [i \in 1..Len(idx) |-> SubstituteBand(idx[i].filepath, bnds[b])],
         query |-> q]]

\* The raw class ids of the label raster _merge_files reads for a query.
RawMask == << 0, 1, 4, 36 >>

\* Line 226: self.ordinal_map[mask]
MaskOf(omap) == [i \in 1..Len(RawMask) |-> omap[RawMask[i]]]

\* self[query], for a dataset built without transforms.
GetItem ==
    /\ pc = "ready"
    /\ IF paths # "str"
       THEN \* the assertion of line 187
            /\ pc' = "raised"
            /\ err' = "AssertionError"
            /\ UNCHANGED << selected, sample >>
       ELSE /\ selected' = FilterIndex(index, query)
            /\ IF IsEmpty(selected')
               THEN /\ pc' = "raised"
                    /\ err' = "IndexError"
                    /\ sample' = NoSample
               ELSE /\ pc' = "returned"
                    /\ err' = "none"
                    /\ sample' = [kind |-> "sample",
                                  bounds |-> query,
                                  image |-> DataList(selected', bands, query),
                                  mask |-> MaskOf(ordinal_map)]
    /\ UNCHANGED << datasetVars, query, rgb_indices, samplerVars >>


(***************************************************************************)
(* samplers/utils.py                                                       *)
(***************************************************************************)
Scalar(a) == [kind |-> "scalar", v |-> a]
Tuple(a, b) == [kind |-> "tuple", v |-> << a, b >>]
None == [kind |-> "none"]

\* _to_tuple
ToTuple(value) ==
    IF value.kind = "scalar" THEN << value.v, value.v >> ELSE value.v

\* Mutant: floor, as in relationship 5 of arXiv:1603.07285.
FloorOfQuotient(a, b) == a \div b

\* math.ceil(a / b) for b > 0
CeilOfQuotient(a, b) == -((-a) \div b)

\* Mutant: int() rounds away from zero.
IntOfQuotientAwayFromZero(a, b) ==
    IF a >= 0 THEN -((-a) \div b) ELSE a \div b

\* int(a / b) for b > 0: truncation toward zero
IntOfQuotient(a, b) == IF a >= 0 THEN a \div b ELSE -((-a) \div b)

\* Mutant: a missing stride defaults to one unit, not to the chip size.
EffectiveStrideUnit(size, stride) ==
    IF stride.kind = "none" THEN << 1, 1 >> ELSE stride.v

\* Lines 111-112: stride defaults to size.
EffectiveStride(size, stride) == IF stride.kind = "none" THEN size ELSE stride.v

\* Lines 114-115
StridePositive(stride) == stride[1] > 0 /\ stride[2] > 0

\* Mutant: rows are counted along x and columns along y.
ChipCountsSwapped(b, size, stride) ==
    << CeilOfQuotient(b[3] - b[1] - size[2], stride[2]) + 1,
       CeilOfQuotient(b[4] - b[2] - size[1], stride[1]) + 1 >>

\* Lines 117-122; bounds are (xmin, ymin, xmax, ymax).
ChipCounts(b, size, stride) ==
    << CeilOfQuotient(b[4] - b[2] - size[1], stride[1]) + 1,
       CeilOfQuotient(b[3] - b[1] - size[2], stride[2]) + 1 >>

TileToChips ==
    /\ pc = "idle"
    /\ args.op = "tile_to_chips"
    /\ LET stride == EffectiveStride(args.size, args.stride) IN
       IF ~StridePositive(stride)
       THEN /\ pc' = "raised"
            /\ err' = "AssertionError"
            /\ chips' = NoChips
       ELSE /\ pc' = "returned"
            /\ err' = "none"
            /\ chips' = ChipCounts(args.bounds, args.size, stride)
    /\ UNCHANGED << datasetVars, queryVars, rgb_indices, args,
                    genA, genB, defA, defB, boxesA, boxesB >>

\* A generator is the pair of its next two outputs; torch.rand(1) returns
\* the first (as a numerator over RandDen) and advances the generator.
GenValue(g) == g[1]
GenNext(g) == << g[2], (g[1] + g[2] + 1) % RandDen >>
Seeds == (0..(RandDen - 1)) \X (0..(RandDen - 1))

\* Mutant: the generator argument is not handed to torch.rand.
SourceDefaultOnly(useGen, g, d) == d

\* torch.rand(1, generator=generator): the supplied generator, or the
\* process default when generator is None.
Source(useGen, g, d) == IF useGen THEN g ELSE d

\* int(rand * (num / res)) * res, with rand = k / RandDen
Offset(k, num, res) == IntOfQuotient(k * num, RandDen * res) * res

\* Lines 63-78 for a source in state g: the box and the state of the
\* source afterwards.
RandomBox(b, size, res, g) ==
    LET t_size == ToTuple(size)
        t_res == ToTuple(res)
        kx == GenValue(g)
        ky == GenValue(GenNext(g))
        xmin == b[1] + Offset(kx, b[3] - b[1] - t_size[2], t_res[1])
        ymin == b[2] + Offset(ky, b[4] - b[2] - t_size[1], t_res[2])
    IN  [x |-> [start |-> xmin, stop |-> xmin + t_size[2]],
         y |-> [start |-> ymin, stop |-> ymin + t_size[1]],
         gen |-> GenNext(GenNext(g))]

Slices(rb) == [x |-> rb.x, y |-> rb.y]

\* One call in each of the two runs, with the same arguments.
GetRandomBoundingBox ==
    /\ pc = "idle"
    /\ args.op = "get_random_bounding_box"
    /\ Len(boxesA) < MaxCalls
    /\ LET ra == RandomBox(args.bounds, args.size, args.res,
                           Source(args.useGen, genA, defA))
           rb == RandomBox(args.bounds, args.size, args.res,
                           Source(args.useGen, genB, defB))
       IN  /\ boxesA' = Append(boxesA, Slices(ra))
           /\ boxesB' = Append(boxesB, Slices(rb))
           /\ IF args.useGen
              THEN /\ genA' = ra.gen /\ genB' = rb.gen
                   /\ UNCHANGED << defA, defB >>
              ELSE /\ defA' = ra.gen /\ defB' = rb.gen
                   /\ UNCHANGED << genA, genB >>
    /\ UNCHANGED << datasetVars, queryVars, rgb_indices, args, chips, pc, err >>


(***************************************************************************)
(* Claims about construction.                                              *)
(***************************************************************************)
\* The position of raw id k in the classes argument; the loop of __init__
\* writes positions in order, so a repeated id keeps its last one.
PositionOf(cls, k) ==
    CHOOSE i \in 1..Len(cls) :
        cls[i] = k /\ \A j \in (i + 1)..Len(cls) : cls[j] # k

\* C2: once a dataset is built, every raw id in 0..max(valid id) that is not
\* in the class list has ordinal 0; every listed id has an ordinal in
\* [0, len(list)) equal to its (zero-based) position in the list, and no two
\* listed ids share an ordinal.
C2_OrdinalMap ==
    pc = "ready" =>
        /\ DOMAIN ordinal_map = 0..MaxKey
        /\ \A k \in 0..MaxKey :
               k \notin Range(classes) => ordinal_map[k] = 0
        /\ \A k \in Range(classes) :
               /\ ordinal_map[k] \in 0..(Len(classes) - 1)
               /\ ordinal_map[k] = PositionOf(classes, k) - 1
        /\ \A k1, k2 \in Range(classes) :
               ordinal_map[k1] = ordinal_map[k2] => k1 = k2
        /\ \A i, j \in 1..Len(classes) :
               (i < j /\ Cardinality(Range(classes)) = Len(classes))
                   => ordinal_map[classes[i]] < ordinal_map[classes[j]]

\* C2 witness: a dataset built from a three-id list that does not start with
\* the background, leaving valid ids unlisted.
C2_Witness ==
    /\ pc = "ready"
    /\ classes = << 36, 0, 1 >>
    /\ ordinal_map[36] = 0 /\ ordinal_map[0] = 1 /\ ordinal_map[1] = 2
    /\ ordinal_map[2] = 0

\* C14 as stated: once a dataset is built, the background id 0 has
\* ordinal 0, every raw id that is not in the class list has the ordinal of
\* the background, and the colour row of that ordinal is cmap[0].
C14_UnlistedIsBackground ==
    pc = "ready" =>
        /\ ordinal_map[0] = 0
        /\ \A k \in 0..MaxKey :
               k \notin Range(classes) =>
                   /\ ordinal_map[k] = ordinal_map[0]
                   /\ ordinal_cmap[ordinal_map[k] + 1] = cmap[0]

\* The class list omits the background id or holds an id that is no key of
\* cmap.
ClassListRejected(cls) ==
    \/ \A i \in 1..Len(cls) : cls[i] # 0
    \/ \E i \in 1..Len(cls) : cls[i] \notin CmapKeys

\* C3: construction fails with the validation AssertionError, before any
\* attribute of the object is set, exactly when the class list omits 0 or
\* holds an id outside cmap; then no dataset is ready for a query.
C3_ClassValidation ==
    pc # "new" =>
        /\ ClassListRejected(classes) <=>
               (pc = "failed" /\ err = "AssertionError" /\ paths = NoValue)
        /\ ClassListRejected(classes) =>
               /\ ordinal_map = << >> /\ index = << >> /\ bands = << >>
               /\ downloads = 0

\* C3 witness: a list of valid ids without the background was rejected.
C3_Witness ==
    /\ pc = "failed" /\ err = "AssertionError"
    /\ classes = << 1, 36 >>

\* C4: when construction reaches _verify (the class list passed validation
\* and bands[0] exists), it raises DatasetNotFoundError exactly when no file
\* matching the glob is present and download is False; azcopy runs only when
\* no file is present and download is True; with files present there is
\* neither an error nor a download.
C4_Verify ==
    [][(pc = "new" /\ pc' # "new" /\ filename_glob' # "{}") =>
          LET present == Files(fs, filename_glob') # << >> IN
          /\ (err' = "DatasetNotFoundError") <=> (~present /\ ~download')
          /\ downloads' # downloads => (~present /\ download')
          /\ present => (err' = "none" /\ pc' = "ready" /\ fs' = fs
                          /\ downloads' = downloads)]_vars

\* C4 witness: construction without local files and without download
\* failed with DatasetNotFoundError.
C4_Witness ==
    /\ pc = "failed" /\ err = "DatasetNotFoundError"
    /\ download = FALSE /\ filename_glob \notin fs /\ downloads = 0


(***************************************************************************)
(* Claims about plot.                                                      *)
(***************************************************************************)
\* C9: plot raises RGBBandsMissingError exactly when one of B04, B03, B02
\* is not among the configured bands; otherwise the three channels it
\* selects are the (first) positions of B04, B03, B02, in that order, in the
\* configured band sequence.
C9_RgbBands ==
    pc \in {"plotted", "raised"} =>
        /\ (err = "RGBBandsMissingError") <=>
               (\E b \in {"B04", "B03", "B02"} : b \notin Range(bands))
        /\ (pc = "raised") <=> (err = "RGBBandsMissingError")
        /\ pc = "plotted" =>
              /\ Len(rgb_indices) = 3
              /\ \A j \in 1..3 :
                    LET want == << "B04", "B03", "B02" >>[j] IN
                    /\ rgb_indices[j] \in 0..(Len(bands) - 1)
                    /\ bands[rgb_indices[j] + 1] = want
                    /\ \A i \in 1..rgb_indices[j] : bands[i] # want

\* C9 witness: B04 and B03 are configured, B02 is not, and plot raised.
C9_Witness ==
    /\ pc = "raised" /\ err = "RGBBandsMissingError"
    /\ bands = << "B04", "B03", "B01" >>

(***************************************************************************)
(* Claims about __getitem__.                                               *)
(***************************************************************************)
Answered == pc \in {"returned", "raised"} /\ paths = "str"

\* C1: a query that no record both overlaps in time and intersects in space
\* fails with IndexError and returns no sample; IndexError is raised exactly
\* when the filtered subset is empty, and a non-empty subset gives a sample.
C1_QueryNotFound ==
    Answered =>
        /\ (\A i \in 1..Len(index) :
               ~(Overlaps(index[i], query.t)
                 /\ Intersects(index[i], query.x, query.y)))
              => (pc = "raised" /\ err = "IndexError" /\ sample = NoSample)
        /\ (err = "IndexError") <=> (selected = << >>)
        /\ selected # << >> =>
              (pc = "returned" /\ err = "none" /\ sample.kind = "sample")

\* C1 witness: a query over a non-empty index that selects nothing raised
\* IndexError.
C1_Witness ==
    /\ Answered /\ pc = "raised" /\ err = "IndexError"
    /\ index # << >> /\ sample = NoSample

\* The positions of the index whose record overlaps the query in time.
TimeKept == {i \in 1..Len(index) : Overlaps(index[i], query.t)}

\* The positions the query selects: among TimeKept, those at a multiple of
\* step counted from the first, whose box intersects the query rectangle.
Kept ==
    {i \in TimeKept :
        /\ Cardinality({j \in TimeKept : j < i}) % query.t.step = 0
        /\ Intersects(index[i], query.x, query.y)}

\* C10: the selected records are, in index order, the records at the
\* positions that (1) overlap the query in time, (2) are every step-th of
\* those counted from the first, and (3) of these intersect the rectangle:
\* the stride is counted before the spatial filter.
C10_FilterOrder ==
    Answered =>
        /\ Len(selected) = Cardinality(Kept)
        /\ \A n \in 1..Len(selected) :
              \E i \in Kept :
                 /\ Cardinality({j \in Kept : j < i}) = n - 1
                 /\ selected[n] = index[i]

\* C10 witness: a query answered with records, for which taking the stride
\* after the spatial filter would have given another subset.
C10_Witness ==
    /\ Answered /\ pc = "returned"
    /\ query.t.step = 2
    /\ selected # FilterIndexStrideLast(index, query)


\* The positions a query selects when the time filter keeps the records
\* for which keep holds: every step-th kept position counted from the
\* first, if its box intersects the query rectangle.
KeptWhere(keep(_)) ==
    LET T == {i \in 1..Len(index) : keep(index[i])} IN
    {i \in T :
        /\ Cardinality({j \in T : j < i}) % query.t.step = 0
        /\ Intersects(index[i], query.x, query.y)}

\* selected lists, in index order, the records at the positions of K.
SelectedIs(K) ==
    /\ Len(selected) = Cardinality(K)
    /\ \A n \in 1..Len(selected) :
          \E i \in K :
             /\ Cardinality({j \in K : j < i}) = n - 1
             /\ selected[n] = index[i]

\* C11 as stated: the time filter keeps the record with interval [a, b)
\* exactly when a < query.end and b > query.start, so a record that only
\* touches the query interval at an endpoint is dropped.
C11_Original ==
    Answered =>
        SelectedIs(KeptWhere(LAMBDA r :
            r.mint < query.t.stop /\ r.maxt > query.t.start))

\* C11, amended: the time filter keeps the record with interval [a, b]
\* exactly when a <= query.end and b > query.start: a record that starts
\* where the query ends is kept, one that ends where the query starts is
\* dropped.
C11_TimeOverlap ==
    Answered =>
        SelectedIs(KeptWhere(LAMBDA r :
            r.mint <= query.t.stop /\ r.maxt > query.t.start))

\* C11 witness: of two records inside the query rectangle, the one that
\* starts at the end of the query interval was selected and the one that
\* ends at its start was not.
C11_Witness ==
    /\ Answered /\ pc = "returned"
    /\ query.t.start < query.t.stop /\ query.t.step = 1
    /\ \E n \in 1..Len(selected) : selected[n].mint = query.t.stop
    /\ \E i \in 1..Len(index) :
          /\ index[i].maxt = query.t.start
          /\ Intersects(index[i], query.x, query.y)
          /\ \A n \in 1..Len(selected) : selected[n] # index[i]


\* C12: a successful query produces one merged tensor per configured
\* band, in the order of self.bands, each merged for the query from one
\* path per selected record, in record order: the record's path with its
\* directory unchanged and the band code of its file name replaced by the
\* band, or the path itself if the file name does not match the pattern.
C12_BandMerge ==
    pc = "returned" =>
        /\ Len(sample.image) = Len(bands)
        /\ \A b \in 1..Len(bands) :
              /\ sample.image[b].band = bands[b]
              /\ sample.image[b].query = query
              /\ Len(sample.image[b].files) = Len(selected)
              /\ \A i \in 1..Len(selected) :
                    LET old == selected[i].filepath
                        new == sample.image[b].files[i]
                    IN  /\ new.dir = old.dir
                        /\ new.name = IF old.name[1] = "ref"
                                      THEN << "ref", old.name[2], bands[b] >>
                                      ELSE old.name

\* C12 witness: a query over two different bands returned with at least
\* two selected records, one whose file name matches the pattern and one
\* whose file name does not.
C12_Witness ==
    /\ pc = "returned"
    /\ Len(bands) >= 2 /\ bands[1] # bands[2]
    /\ Len(sample.image) >= 2
    /\ \E i, j \in 1..Len(selected) :
          /\ i < j
          /\ selected[i].filepath.name[1] # selected[j].filepath.name[1]


(***************************************************************************)
(* Claims about the sampler utilities.                                     *)
(***************************************************************************)
\* n is the ceiling of a / b, for b > 0: the least integer with n * b >= a.
IsCeiling(n, a, b) == n * b >= a /\ (n - 1) * b < a

\* The stride a call asks for: the one supplied, else the chip size.
AskedStride == IF args.stride.kind = "none" THEN args.size ELSE args.stride.v

\* C5: a call with a strictly positive stride returns (rows, cols) where
\* rows - 1 is the ceiling of (ymax - ymin - size[0]) / stride[0] and
\* cols - 1 the ceiling of (xmax - xmin - size[1]) / stride[1]; the tile
\* (0,0,10,10) with chips of 5 gives (2,2) at stride 5 and (3,3) at stride 3.
C5_ChipCounts ==
    /\ (pc = "returned" /\ args.op = "tile_to_chips") =>
          /\ Len(chips) = 2
          /\ IsCeiling(chips[1] - 1,
                       args.bounds[4] - args.bounds[2] - args.size[1],
                       AskedStride[1])
          /\ IsCeiling(chips[2] - 1,
                       args.bounds[3] - args.bounds[1] - args.size[2],
                       AskedStride[2])
    /\ (pc # "idle" /\ args.op = "tile_to_chips"
        /\ args.bounds = << 0, 0, 10, 10 >> /\ args.size = << 5, 5 >>) =>
          /\ args.stride = Tuple(5, 5) => chips = << 2, 2 >>
          /\ args.stride = Tuple(3, 3) => chips = << 3, 3 >>

\* C5 witness: a tile that is wider than high, cut with a stride that does
\* not divide the slack, gave more columns than rows.
C5_Witness ==
    /\ pc = "returned"
    /\ args.bounds = << 0, 1, 3, 2 >> /\ args.size = << 1, 1 >>
    /\ args.stride = Tuple(2, 2)
    /\ chips = << 1, 2 >>

\* The tile extent, chip size and stride of a call along the rows (d = 1,
\* the y axis) and along the columns (d = 2, the x axis).
Extent(d) ==
    IF d = 1 THEN args.bounds[4] - args.bounds[2]
             ELSE args.bounds[3] - args.bounds[1]

\* o chips of size k placed at offsets 0, s, ..., (o - 1) * s cover a tile
\* of extent E and no fewer do; the chips beyond the whole strides that fit
\* are one if s does not divide E - k and none if it does.
Covering(o, E, k, s) ==
    /\ o >= 1
    /\ (o - 1) * s + k >= E
    /\ o > 1 => (o - 2) * s + k < E
    /\ o - (((E - k) \div s) + 1) = IF (E - k) % s = 0 THEN 0 ELSE 1

\* C13: for a call with a positive stride, in every dimension where the
\* tile is at least as large as the chip, the count returned is at least 1,
\* its chips reach the end of the tile, one chip fewer would not, and it
\* holds exactly one partial-overlap chip when the stride does not divide
\* the slack and none when it does.
C13_Covering ==
    (pc = "returned" /\ args.op = "tile_to_chips") =>
        \A d \in 1..2 :
            Extent(d) >= args.size[d] =>
                Covering(chips[d], Extent(d), args.size[d], AskedStride[d])

\* C13 witness: a call returned for a tile larger than the chip in both
\* dimensions, where the stride leaves a partial chip along the rows and
\* divides the slack along the columns, and more than one chip was placed
\* in both.
C13_Witness ==
    /\ pc = "returned" /\ args.op = "tile_to_chips"
    /\ Extent(1) > args.size[1] /\ Extent(2) > args.size[2]
    /\ (Extent(1) - args.size[1]) % AskedStride[1] # 0
    /\ (Extent(2) - args.size[2]) % AskedStride[2] = 0
    /\ chips[1] > 1 /\ chips[2] > 1

\* C6: the call fails with an AssertionError and returns no count exactly
\* when the stride asked for (the chip size when none is supplied) is not
\* strictly positive in some dimension; a call without a stride returns what
\* the call with stride = size returns.
C6_StridePrecondition ==
    (pc \in {"returned", "raised"} /\ args.op = "tile_to_chips") =>
        /\ (pc = "raised" /\ err = "AssertionError" /\ chips = NoChips)
              <=> (AskedStride[1] <= 0 \/ AskedStride[2] <= 0)
        /\ (AskedStride[1] > 0 /\ AskedStride[2] > 0)
              => (pc = "returned" /\ err = "none" /\ chips # NoChips)
        /\ (pc = "returned" /\ args.stride.kind = "none") =>
              /\ IsCeiling(chips[1] - 1,
                           args.bounds[4] - args.bounds[2] - args.size[1],
                           args.size[1])
              /\ IsCeiling(chips[2] - 1,
                           args.bounds[3] - args.bounds[1] - args.size[2],
                           args.size[2])

\* C6 witness: a stride positive along the rows only was refused.
C6_Witness ==
    /\ pc = "raised" /\ err = "AssertionError"
    /\ args.stride = Tuple(1, 0) /\ chips = NoChips

\* The box has the requested width and height.
BoxHasSize(box) ==
    /\ box.x.stop - box.x.start = ToTuple(args.size)[2]
    /\ box.y.stop - box.y.start = ToTuple(args.size)[1]

\* The box starts a whole number of resolution steps from the tile's corner.
BoxOnGrid(box) ==
    /\ (box.x.start - args.bounds[1]) % ToTuple(args.res)[1] = 0
    /\ (box.y.start - args.bounds[2]) % ToTuple(args.res)[2] = 0

XInside(box) ==
    /\ args.bounds[1] <= box.x.start
    /\ box.x.start <= args.bounds[3] - ToTuple(args.size)[2]

YInside(box) ==
    /\ args.bounds[2] <= box.y.start
    /\ box.y.start <= args.bounds[4] - ToTuple(args.size)[1]

XFits == ToTuple(args.size)[2] <= args.bounds[3] - args.bounds[1]
YFits == ToTuple(args.size)[1] <= args.bounds[4] - args.bounds[2]

\* C7 as stated: every returned box has the requested size, starts within
\* [bounds.min, bounds.max - size] on each axis, and lies on the grid.
C7_Original ==
    \A n \in 1..Len(boxesA) :
        /\ BoxHasSize(boxesA[n])
        /\ XInside(boxesA[n]) /\ YInside(boxesA[n])
        /\ BoxOnGrid(boxesA[n])

\* C7, amended: every returned box has the requested size and lies on the
\* grid; on an axis where the requested size does not exceed the extent of
\* the bounds, it starts within [bounds.min, bounds.max - size].
C7_BoxWithinBounds ==
    \A n \in 1..Len(boxesA) :
        /\ BoxHasSize(boxesA[n])
        /\ BoxOnGrid(boxesA[n])
        /\ XFits => XInside(boxesA[n])
        /\ YFits => YInside(boxesA[n])

\* C7 witness: a box that fits was moved off the tile's corner on both axes.
C7_Witness ==
    /\ Len(boxesA) >= 1
    /\ XFits /\ YFits
    /\ boxesA[1].x.start > args.bounds[1]
    /\ boxesA[1].y.start > args.bounds[2]

\* C8: in two runs whose random source starts in the same state, every call
\* returns the same box in both; a call takes two draws from the source,
\* the first for the x offset and the second for the y offset, and leaves
\* the other generator and the arguments alone.
C8_Reproducible ==
    [][Len(boxesA') > Len(boxesA) =>
          LET srcA == IF args.useGen THEN genA ELSE defA
              srcB == IF args.useGen THEN genB ELSE defB
              box == boxesA'[Len(boxesA')]
          IN  /\ boxesA' = boxesB'
              /\ srcA = srcB
              /\ (IF args.useGen THEN genA' ELSE defA') = GenNext(GenNext(srcA))
              /\ (IF args.useGen THEN genB' ELSE defB') = GenNext(GenNext(srcB))
              /\ IF args.useGen
                 THEN defA' = defA /\ defB' = defB
                 ELSE genA' = genA /\ genB' = genB
              /\ args' = args
              /\ box.x.start = args.bounds[1]
                    + Offset(GenValue(srcA),
                             args.bounds[3] - args.bounds[1] - ToTuple(args.size)[2],
                             ToTuple(args.res)[1])
              /\ box.y.start = args.bounds[2]
                    + Offset(GenValue(GenNext(srcA)),
                             args.bounds[4] - args.bounds[2] - ToTuple(args.size)[1],
                             ToTuple(args.res)[2])]_vars

\* C8 witness: two calls on a supplied generator gave two different boxes,
\* the same in both runs, although the default generators differ.
C8_Witness ==
    /\ Len(boxesA) = 2 /\ boxesA = boxesB
    /\ boxesA[1] # boxesA[2]
    /\ args.useGen /\ defA # defB

NoArgs == [kind |-> "none"]

InitSamplerIdle ==
    /\ args = NoArgs
    /\ chips = NoChips
    /\ genA = << 0, 0 >> /\ genB = << 0, 0 >>
    /\ defA = << 0, 0 >> /\ defB = << 0, 0 >>
    /\ boxesA = << >> /\ boxesB = << >>

InitQueryIdle ==
    /\ query = NoValue
    /\ selected = << >>
    /\ sample = NoSample

\* Before construction: some files may already be under paths.
Init ==
    /\ fs \in {{}, {"B01"}, Range(all_bands)}
    /\ downloads = 0
    /\ pc = "new"
    /\ paths = NoValue
    /\ download = FALSE
    /\ classes = << >>
    /\ bands = << >>
    /\ filename_glob = "{}"
    /\ ordinal_map = << >>
    /\ ordinal_cmap = << >>
    /\ index = << >>
    /\ err = "none"
    /\ rgb_indices = << >>
    /\ InitQueryIdle
    /\ InitSamplerIdle

\* The bands arguments construction is tried with.
ConstructBands == {<< >>, all_bands, << "B01", "B02", "B05" >>, << "B04", "B03", "B02" >>}

Next ==
    \E p \in {"str", "list"}, cls \in ClassLists, bnds \in ConstructBands,
       dl \in BOOLEAN :
        Construct(p, cls, bnds, dl)

Spec == Init /\ [][Next]_vars

(***************************************************************************)
(* A dataset after construction, for the operations on it.                 *)
(***************************************************************************)
\* list(cmap.keys()), the default of the classes argument
DefaultClasses == << 0, 1, 2, 3, 4, 5, 6, 8, 9, 13, 14, 15, 16, 36 >>

Constructed(p, bnds, idx) ==
    /\ fs = Range(all_bands)
    /\ downloads = 0
    /\ pc = "ready"
    /\ paths = p
    /\ download = FALSE
    /\ classes = DefaultClasses
    /\ bands = bnds
    /\ filename_glob = bnds[1]
    /\ ordinal_map = OrdinalMapAfter(DefaultClasses, Len(DefaultClasses))
    /\ ordinal_cmap = OrdinalCmap(DefaultClasses)
    /\ index = idx
    /\ err = "none"
    /\ rgb_indices = << >>

\* ---- plot: a dataset over any non-empty band list, and a sample of it
InitPlot ==
    /\ \E bnds \in BandLists \ {<< >>} :
          /\ Constructed("str", bnds, TilesOf(bnds[1]))
          /\ query = [x |-> [start |-> 0, stop |-> 2],
                      y |-> [start |-> 0, stop |-> 1],
                      t |-> [start |-> 0, stop |-> 1, step |-> 1]]
          /\ selected = FilterIndex(index, query)
          /\ sample = [kind |-> "sample", bounds |-> query,
                       image |-> DataList(selected, bnds, query),
                       mask |-> MaskOf(ordinal_map)]
    /\ InitSamplerIdle

NextPlot == Plot

SpecPlot == InitPlot /\ [][NextPlot]_vars

\* ---- __getitem__: a dataset over any index, and a query for it
Pairs(lo, hi) == {<< a, b >> \in (lo..hi) \X (lo..hi) : a <= b}
StrictPairs(lo, hi) == {<< a, b >> \in (lo..hi) \X (lo..hi) : a < b}

\* Records have a non-degenerate box and mint <= maxt; the y extent of
\* every tile is [0, 1].
RecordPool ==
    {Rec("source", << "ref", << xs, ts >>, "B01" >>,
         xs[1], xs[2], 0, 1, ts[1], ts[2]) :
        xs \in StrictPairs(0, MaxX), ts \in Pairs(0, MaxT)}

Indexes == SeqsUpTo(RecordPool, NRec)

\* A query window has start <= stop on every axis and a positive time step.
Queries ==
    {[x |-> [start |-> xs[1], stop |-> xs[2]],
      y |-> [start |-> ys[1], stop |-> ys[2]],
      t |-> [start |-> ts[1], stop |-> ts[2], step |-> st]] :
        xs \in Pairs(0, MaxX), ys \in Pairs(0, 1 + MaxOutside),
        ts \in Pairs(0, MaxT), st \in 1..MaxStep}

InitQuery ==
    /\ \E p \in {"str", "list"}, idx \in Indexes :
          Constructed(p, << "B01", "B02" >>, idx)
    /\ query \in Queries
    /\ selected = << >>
    /\ sample = NoSample
    /\ InitSamplerIdle

NextQuery == GetItem

SpecQuery == InitQuery /\ [][NextQuery]_vars

\* ---- __getitem__, band merge: a dataset over any non-empty band list.
\* The index holds the files found for the first band in two folders; a
\* file found by filename_glob need not match filename_regex (a folder id
\* that is not five characters long).
MergePool(band) ==
    {Rec("source", << "ref", "001c1", band >>, 0, 1, 0, 1, 0, 1),
     Rec("source", << "file", "001c1x" >>, 0, 1, 0, 1, 0, 1),
     Rec("more", << "ref", "00720", band >>, 1, 2, 0, 1, 0, 1),
     Rec("more", << "file", "00720x" >>, 1, 2, 0, 1, 0, 1)}

\* Queries over the whole time and y range that reach the last tile.
MergeQueries ==
    {q \in Queries :
        /\ q.x.stop = MaxX
        /\ q.y.start = 0 /\ q.y.stop = 1
        /\ q.t.start = 0 /\ q.t.stop = MaxT}

InitMerge ==
    /\ \E p \in {"str", "list"}, bnds \in BandLists \ {<< >>} :
          \E idx \in SeqsUpTo(MergePool(bnds[1]), NRec) :
             Constructed(p, bnds, idx)
    /\ query \in MergeQueries
    /\ selected = << >>
    /\ sample = NoSample
    /\ InitSamplerIdle

NextMerge == GetItem

SpecMerge == InitMerge /\ [][NextMerge]_vars

\* ---- the sampler utilities: no dataset is involved
NoDataset ==
    /\ fs = {} /\ downloads = 0
    /\ pc = "idle"
    /\ paths = NoValue /\ download = FALSE
    /\ classes = << >> /\ bands = << >> /\ filename_glob = "{}"
    /\ ordinal_map = << >> /\ ordinal_cmap = << >> /\ index = << >>
    /\ err = "none" /\ rgb_indices = << >>
    /\ InitQueryIdle

\* (xmin, ymin, xmax, ymax) with xmin <= xmax and ymin <= ymax
TileBounds ==
    {b \in (0..1) \X (0..1) \X (0..MaxCoord) \X (0..MaxCoord) :
        b[1] <= b[3] /\ b[2] <= b[4]}

ChipArgs ==
    {[op |-> "tile_to_chips", bounds |-> b, size |-> << h, w >>, stride |-> st] :
        b \in TileBounds, h \in 0..MaxSize, w \in 0..MaxSize,
        st \in {None} \cup {Tuple(a, c) : a \in (-1)..MaxStride, c \in (-1)..MaxStride}}

\* The two calls the documentation of the tiling works through.
ChipExamples ==
    {[op |-> "tile_to_chips", bounds |-> << 0, 0, 10, 10 >>,
      size |-> << 5, 5 >>, stride |-> Tuple(5, 5)],
     [op |-> "tile_to_chips", bounds |-> << 0, 0, 10, 10 >>,
      size |-> << 5, 5 >>, stride |-> Tuple(3, 3)]}

InitChips ==
    /\ NoDataset
    /\ args \in ChipArgs \cup ChipExamples
    /\ chips = NoChips
    /\ genA = << 0, 0 >> /\ genB = << 0, 0 >>
    /\ defA = << 0, 0 >> /\ defB = << 0, 0 >>
    /\ boxesA = << >> /\ boxesB = << >>

NextChips == TileToChips

SpecChips == InitChips /\ [][NextChips]_vars

ScalarOrTuple(S) ==
    {Scalar(a) : a \in S} \cup {Tuple(a, b) : a \in S, b \in S}

BoxArgs ==
    {[op |-> "get_random_bounding_box", bounds |-> b, size |-> sz,
      res |-> rs, useGen |-> g] :
        b \in TileBounds, sz \in ScalarOrTuple(1..MaxSize),
        rs \in ScalarOrTuple(1..MaxRes), g \in BOOLEAN}

\* Two runs: the random source the calls draw from is in the same state in
\* both, the other generator of the process is not.
InitBox ==
    /\ NoDataset
    /\ args \in BoxArgs
    /\ chips = NoChips
    /\ \E seed \in Seeds :
          IF args.useGen
          THEN /\ genA = seed /\ genB = seed
               /\ defA = << 0, 0 >> /\ defB = << RandDen - 1, RandDen - 1 >>
          ELSE /\ defA = seed /\ defB = seed
               /\ genA = << 0, 0 >> /\ genB = << RandDen - 1, RandDen - 1 >>
    /\ boxesA = << >> /\ boxesB = << >>

NextBox == GetRandomBoundingBox

SpecBox == InitBox /\ [][NextBox]_vars

=============================================================================
